---- MODULE Spec2Model ----
(***************************************************************************)
(* Model of salt/modules/freebsdservice.py (enable / disable / enabled of  *)
(* a FreeBSD service through an rc.conf style file) and of                 *)
(* salt/states/cron.py (the present / absent cron states).                 *)
(*                                                                         *)
(* Text is a sequence of atoms.  An atom is a piece of text that the code  *)
(* never looks inside: the key `a_enable=', a quoted value `"YES"', a run  *)
(* of other non-blank text `#c', one blank ` ', one newline.  A file is    *)
(* the flat sequence of its atoms, so writing lines and reading them back  *)
(* goes through concatenation and a fresh split on the newlines.           *)
(***************************************************************************)
EXTENDS Integers, Sequences, FiniteSets, TLC

VARIABLES
    fs,       \* path -> the file there: [exists, data]
    rcdir,    \* whether /etc/rc.conf.d exists and is a directory
    fs0,      \* the files before any call
    proc,     \* per caller: its call, its position in _switch, its result
    ran,      \* the commands handed to cmd.run / cmd.run_stdout so far
    cronRet   \* the value the last cron state function returned

vars == <<fs, rcdir, fs0, proc, ran, cronRet>>

\* Largest number of lines of the initial /etc/rc.conf.
MaxLines == 2

Procs == {1, 2}

NL == "\n"
SP == " "

Range(s) == {s[i] : i \in DOMAIN s}

RECURSIVE Join(_)
Join(s) == IF s = <<>> THEN "" ELSE Head(s) \o Join(Tail(s))

RECURSIVE Flatten(_)
Flatten(ls) == IF ls = <<>> THEN <<>> ELSE Head(ls) \o Flatten(Tail(ls))

(***************************************************************************)
(* The host: output of `service -l', of `service <name> rcvar', the paths. *)
(***************************************************************************)

\* `service -l': one entry per line; upper-case entries are rc.d markers.
\* The list is in sorted order already, so sorted() leaves it as it is.
ServiceList == <<"DAEMON", "a", "b", "norc">>

IsUpper(s) == s \in {"DAEMON"}

\* Names a caller may pass.
Names == {"DAEMON", "a", "b", "norc"}

\* State values `service <name> rcvar' may print between the quotes.
StateWords == {"YES", "NO", "on"}

Lower(s) == CASE s = "YES" -> "yes"
              [] s = "NO" -> "no"
              [] OTHER -> s

\* `service <name> rcvar': lines of atoms; norc has no <x>_enable="..." line.
RcvarOutput(name, state) ==
    IF name \in {"a", "b"}
    THEN << <<"#", SP, name>>, <<name, "_enable", "=", "\"", state, "\"">> >>
    ELSE << <<"#", SP, name>> >>

RcConf == "/etc/rc.conf"
RcDir == "/etc/rc.conf.d"
Paths == {RcConf, "/etc/rc.conf.d/a", "/etc/rc.conf.d/b"}

\* The config keyword argument: absent (config.option default), or ''.
Kwargs == {"default", ""}

NoFile == [exists |-> FALSE, data |-> <<>>]
File(d) == [exists |-> TRUE, data |-> d]

(***************************************************************************)
(* Text functions of Python, on atoms.                                     *)
(***************************************************************************)

IsSpace(a) == a \in {SP, NL}

\* Index of the first newline of d, 0 when there is none.
RECURSIVE FirstNL(_, _)
FirstNL(d, i) == IF i > Len(d) THEN 0
                 ELSE IF d[i] = NL THEN i ELSE FirstNL(d, i + 1)

\* `for line in ifile': the lines, each with its newline, the last maybe without.
RECURSIVE SplitLines(_)
SplitLines(d) ==
    IF d = <<>> THEN <<>>
    ELSE LET i == FirstNL(d, 1)
         IN IF i = 0 THEN <<d>>
            ELSE <<SubSeq(d, 1, i)>> \o SplitLines(SubSeq(d, i + 1, Len(d)))

\* line.startswith('{0}='.format(rcvar))
StartsWith(line, rcvar) == Len(line) >= 1 /\ line[1] = rcvar \o "="

\* Number of leading atoms of s that satisfy / do not satisfy IsSpace.
RECURSIVE SpanSpace(_, _)
SpanSpace(s, i) == IF i <= Len(s) /\ IsSpace(s[i]) THEN SpanSpace(s, i + 1) ELSE i - 1

RECURSIVE SpanWord(_, _)
SpanWord(s, i) == IF i <= Len(s) /\ ~IsSpace(s[i]) THEN SpanWord(s, i + 1) ELSE i - 1

\* len(line.split()[0]): leading blanks are skipped, the first word is measured.
FirstWordLen(line) ==
    LET b == SpanSpace(line, 1)
    IN SpanWord(line, b + 1) - b

\* line[len(line.split()[0]):]
Rest(line) == SubSeq(line, FirstWordLen(line) + 1, Len(line))

Quoted(val) == "\"" \o val \o "\""

Val(on) == IF on THEN "YES" ELSE "NO"

(***************************************************************************)
(* freebsdservice.py                                                       *)
(***************************************************************************)

\* get_all(): the entries of `service -l' that are not upper case, sorted.
get_all == SelectSeq(ServiceList, LAMBDA srv : ~IsUpper(srv))

\* available() that looks the name up in the raw `service -l' listing.
available_unfiltered(name) == name \in Range(ServiceList)

available(name) == name \in Range(get_all)

\* '_enable="' in line
HasEnable(line) ==
    \E i \in 1..(Len(line) - 2) :
        line[i] = "_enable" /\ line[i + 1] = "=" /\ line[i + 2] = "\""

\* Index of the first atom a of line from i on, 0 when there is none.
RECURSIVE IndexOf(_, _, _)
IndexOf(line, a, i) == IF i > Len(line) THEN 0
                       ELSE IF line[i] = a THEN i ELSE IndexOf(line, a, i + 1)

\* The lines of out that hold '_enable="', in order.
EnableLines(out) == SelectSeq(out, HasEnable)

\* _get_rcvar(name): "False" for an unknown service, "None" when no line of
\* the output holds '_enable="', else the text before the first '='.
_get_rcvar(name, out) ==
    IF ~available(name) THEN "False"
    ELSE IF EnableLines(out) = <<>> THEN "None"
    ELSE LET line == Head(EnableLines(out))
         IN Join(SubSeq(line, 1, IndexOf(line, "=", 1) - 1))

\* `not rcvar'
Falsy(r) == r \in {"False", "None", ""}

\* enabled(name), given the command's output: line.split('"', 2)[1], lowered.
enabled(name, out) ==
    IF ~available(name) THEN FALSE
    ELSE IF EnableLines(out) = <<>> THEN FALSE
    ELSE LET line == Head(EnableLines(out))
             q1 == IndexOf(line, "\"", 1)
             q2 == IndexOf(line, "\"", q1 + 1)
             state == Join(SubSeq(line, q1 + 1,
                                  (IF q2 = 0 THEN Len(line) ELSE q2 - 1)))
         IN Lower(state) \in {"yes", "true", "on", "1"}

\* rcvar.replace('_enable', '')
StripEnable(rcvar) == CASE rcvar = "a_enable" -> "a"
                        [] rcvar = "b_enable" -> "b"
                        [] OTHER -> rcvar

\* The config file _switch edits: the keyword argument (or the default of
\* config.option), and /etc/rc.conf.d/<service> when that is empty.
ConfigPath(kw, rcvar) ==
    IF kw = "default" THEN RcConf
    ELSE IF kw # "" THEN kw
    ELSE RcDir \o "/" \o StripEnable(rcvar)

\* One line of the loop of _switch.
RewriteLine(line, rcvar, val) ==
    IF ~StartsWith(line, rcvar) THEN line
    ELSE <<rcvar \o "=", Quoted(val)>> \o Rest(line)

\* nlines of _switch: every line, the matching ones rewritten; a new record
\* at the end when no line matched.
NewLines(file, rcvar, val) ==
    LET lines == IF file.exists THEN SplitLines(file.data) ELSE <<>>
        edited == \E i \in DOMAIN lines : StartsWith(lines[i], rcvar)
        nl == [i \in DOMAIN lines |-> RewriteLine(lines[i], rcvar, val)]
    IN IF edited THEN nl
       ELSE nl \o << <<rcvar \o "=", Quoted(val), NL>> >>

(***************************************************************************)
(* State.                                                                  *)
(***************************************************************************)

\* Line texts (without the newline) the initial /etc/rc.conf is made of.
LineBodies ==
    { <<>>,
      <<"#c">>,
      <<"a_enable=", Quoted("YES")>>,
      <<"a_enable=", Quoted("NO")>>,
      <<"a_enable=", Quoted("NO"), SP, "#c">>,
      <<"b_enable=", Quoted("NO")>> }

\* The text of the lines bs; the last one ends in a newline when term.
TextOf(bs, term) ==
    Flatten([i \in DOMAIN bs |->
                bs[i] \o (IF i < Len(bs) \/ term THEN <<NL>> ELSE <<>>)])

InitTexts ==
    UNION { { TextOf(bs, term) : bs \in [1..n -> LineBodies], term \in BOOLEAN }
            : n \in 0..MaxLines }

InitFiles == {NoFile} \cup {File(d) : d \in InitTexts}

NoFiles == [p \in Paths |-> NoFile]

Idle ==
    [pc |-> "idle", op |-> "", name |-> "", kw |-> "", config |-> "",
     rcvar |-> "", seen |-> NoFile, nlines |-> <<>>, k |-> 0,
     ret |-> "none", pred |-> {}, post |-> NoFiles]

\* No cron state function was called yet.
NoRet == [fn |-> "", user |-> "", data |-> "",
          ret |-> [name |-> "", result |-> TRUE, changes |-> {}, comment |-> ""]]

Init ==
    /\ \E f \in InitFiles : fs = [p \in Paths |-> IF p = RcConf THEN f ELSE NoFile]
    /\ rcdir \in BOOLEAN
    /\ fs0 = fs
    /\ proc = [p \in Procs |-> Idle]
    /\ ran = {}
    /\ cronRet = NoRet

Returned(p) == proc[p].pc \in {"done", "failed"}

\* The commands get_all / available and _get_rcvar hand to the command runner.
CmdList == <<"service", "-l">>
CmdRcvar(name) == <<"service", name, "rcvar">>

(***************************************************************************)
(* _switch(name, on, config=kw), up to the point where the file is opened  *)
(* for writing: the early returns, the choice of the file, the read loop.  *)
(* out is what `service <name> rcvar' prints.                              *)
(***************************************************************************)
_switch(p, op, name, on, kw, out) ==
    LET rcvar == _get_rcvar(name, out)
        config == ConfigPath(kw, rcvar)
        call == [proc[p] EXCEPT !.op = op, !.name = name, !.kw = kw,
                                !.pred = {q \in Procs : Returned(q)}]
        false == [call EXCEPT !.pc = "done", !.ret = "False", !.post = fs]
    IN /\ proc[p].pc = "idle"
       /\ UNCHANGED <<fs, rcdir, fs0, cronRet>>
       /\ IF ~available(name)
          THEN /\ proc' = [proc EXCEPT ![p] = false]
               /\ ran' = ran \cup {CmdList}
          ELSE /\ ran' = ran \cup {CmdList, CmdRcvar(name)}
               /\ IF Falsy(rcvar)
                  THEN proc' = [proc EXCEPT ![p] = [false EXCEPT !.rcvar = rcvar]]
                  ELSE IF kw = "" /\ ~rcdir
                  THEN proc' = [proc EXCEPT ![p] = [false EXCEPT !.rcvar = rcvar]]
                  ELSE proc' = [proc EXCEPT ![p] =
                            [call EXCEPT !.pc = "open", !.rcvar = rcvar,
                                         !.config = config,
                                         !.seen = fs[config],
                                         !.nlines = NewLines(fs[config], rcvar, Val(on))]]

\* enable(name, **kwargs)
Enable(p) ==
    \E name \in Names, kw \in Kwargs, state \in StateWords :
        _switch(p, "enable", name, TRUE, kw, RcvarOutput(name, state))

\* disable(name, **kwargs)
Disable(p) ==
    \E name \in Names, kw \in Kwargs, state \in StateWords :
        _switch(p, "disable", name, FALSE, kw, RcvarOutput(name, state))

\* salt.utils.fopen(config, 'w'): the file is created or cut to nothing.
Open(p) ==
    /\ proc[p].pc = "open"
    /\ fs' = [fs EXCEPT ![proc[p].config] = File(<<>>)]
    /\ proc' = [proc EXCEPT ![p].pc = "writing"]
    /\ UNCHANGED <<rcdir, fs0, ran, cronRet>>

\* ofile.writelines(nlines) and the end of the with block: the buffered
\* lines reach the file as it is closed, and _switch returns True.
Close(p) ==
    /\ proc[p].pc = "writing"
    /\ fs' = [fs EXCEPT ![proc[p].config] =
                 File(fs[proc[p].config].data \o Flatten(proc[p].nlines))]
    /\ proc' = [proc EXCEPT ![p].pc = "done", ![p].ret = "True", ![p].k = Len(proc[p].nlines),
                            ![p].post = fs']
    /\ UNCHANGED <<rcdir, fs0, ran, cronRet>>

\* The write fails (disk full, I/O error) after k of the lines reached the
\* file: the exception leaves _switch, which handles none.
WriteFail(p) ==
    /\ proc[p].pc = "writing"
    /\ \E k \in 0..(Len(proc[p].nlines) - 1) :
          /\ fs' = [fs EXCEPT ![proc[p].config] =
                       File(fs[proc[p].config].data
                              \o Flatten(SubSeq(proc[p].nlines, 1, k)))]
          /\ proc' = [proc EXCEPT ![p].pc = "failed", ![p].ret = "raised",
                                  ![p].k = k, ![p].post = fs']
    /\ UNCHANGED <<rcdir, fs0, ran, cronRet>>

\* enabled(name)
EnabledCall(p) ==
    \E name \in Names, state \in StateWords :
        /\ proc[p].pc = "idle"
        /\ proc' = [proc EXCEPT ![p] =
              [proc[p] EXCEPT !.op = "enabled", !.name = name, !.pc = "done",
                              !.pred = {q \in Procs : Returned(q)},
                              !.post = fs,
                              !.ret = IF enabled(name, RcvarOutput(name, state))
                                      THEN "True" ELSE "False"]]
        /\ ran' = ran \cup (IF available(name) THEN {CmdList, CmdRcvar(name)}
                            ELSE {CmdList})
        /\ UNCHANGED <<fs, rcdir, fs0, cronRet>>

\* The callers before p have returned and those after it have not called.
Quiet(p) == \A q \in Procs \ {p} : IF q < p THEN Returned(q) ELSE proc[q].pc = "idle"

\* One call at a time: caller 1 makes a call, and once it returned caller 2.
Next ==
    \E p \in Procs :
        \/ Quiet(p) /\ Enable(p)
        \/ Quiet(p) /\ Disable(p)
        \/ Quiet(p) /\ EnabledCall(p)
        \/ Open(p)
        \/ Close(p)
        \/ WriteFail(p)

Spec == Init /\ [][Next]_vars

\* Largest number of lines of the initial /etc/rc.conf under SpecConc.
MaxConcLines == 1

InitConc ==
    /\ Init
    /\ rcdir
    /\ Len(SplitLines(fs[RcConf].data)) <= MaxConcLines

\* Callers that do not wait for each other.
NextConc ==
    \E p \in Procs :
        \/ Enable(p)
        \/ Disable(p)
        \/ EnabledCall(p)
        \/ Open(p)
        \/ Close(p)
        \/ WriteFail(p)

SpecConc == InitConc /\ [][NextConc]_vars

(***************************************************************************)
(* states/cron.py.  cron.set_job and cron.rm_job are the host's: what they *)
(* return is an input, data.  The schedule fields are handed to them       *)
(* unread and are left out.  A dict {user: name} is the set {<<user,       *)
(* name>>}.                                                                *)
(***************************************************************************)

CronNames == {"/bin/true", "backup", ""}
CronUsers == {"root", "www", ""}

\* What cron.set_job / cron.rm_job may return: a status, or the stderr of
\* the failed crontab command (which may be empty).
CronData == {"present", "new", "updated", "absent", "removed",
             "", "crontab: error"}

Failed(name, user, data) ==
    "Cron " \o name \o " for user " \o user
        \o " failed to commit with error \n" \o data

\* present() without its 'updated' branch: that status falls through to
\* the failure return, after the changes were recorded.
present_updated_fails(name, user, data) ==
    LET ret == [name |-> name, result |-> TRUE, changes |-> {}, comment |-> ""]
    IN IF data = "present"
       THEN [ret EXCEPT !.comment = "Cron " \o name \o " already present"]
       ELSE IF data = "new"
       THEN [ret EXCEPT !.comment = "Cron " \o name \o " added to " \o user
                                       \o "'s crontab",
                        !.changes = {<<user, name>>}]
       ELSE [ret EXCEPT !.comment = Failed(name, user, data),
                        !.changes = IF data = "updated" THEN {<<user, name>>} ELSE {},
                        !.result = FALSE]

\* present(name, user, ...), given the value cron.set_job returned.
present(name, user, data) ==
    LET ret == [name |-> name, result |-> TRUE, changes |-> {}, comment |-> ""]
    IN IF data = "present"
       THEN [ret EXCEPT !.comment = "Cron " \o name \o " already present"]
       ELSE IF data = "new"
       THEN [ret EXCEPT !.comment = "Cron " \o name \o " added to " \o user
                                       \o "'s crontab",
                        !.changes = {<<user, name>>}]
       ELSE IF data = "updated"
       THEN [ret EXCEPT !.comment = "Cron " \o name \o " updated",
                        !.changes = {<<user, name>>}]
       ELSE [ret EXCEPT !.comment = Failed(name, user, data),
                        !.result = FALSE]

\* absent(name, user, ...), given the value cron.rm_job returned.
absent(name, user, data) ==
    LET ret == [name |-> name, result |-> TRUE, changes |-> {}, comment |-> ""]
    IN IF data = "absent"
       THEN [ret EXCEPT !.comment = "Cron " \o name \o " already absent"]
       ELSE IF data = "removed"
       THEN [ret EXCEPT !.comment = "Cron " \o name \o " removed from " \o user
                                       \o "'s crontab",
                        !.changes = {<<user, name>>}]
       ELSE [ret EXCEPT !.comment = Failed(name, user, data),
                        !.result = FALSE]

Present ==
    \E name \in CronNames, user \in CronUsers, data \in CronData :
        /\ cronRet' = [fn |-> "present", user |-> user, data |-> data,
                       ret |-> present(name, user, data)]
        /\ UNCHANGED <<fs, rcdir, fs0, proc, ran>>

Absent ==
    \E name \in CronNames, user \in CronUsers, data \in CronData :
        /\ cronRet' = [fn |-> "absent", user |-> user, data |-> data,
                       ret |-> absent(name, user, data)]
        /\ UNCHANGED <<fs, rcdir, fs0, proc, ran>>

InitCron ==
    /\ Init
    /\ rcdir
    /\ ~fs[RcConf].exists

NextCron == Present \/ Absent

SpecCron == InitCron /\ [][NextCron]_vars

(***************************************************************************)
(* Properties.                                                             *)
(***************************************************************************)

IsSwitch(p) == proc[p].op \in {"enable", "disable"}

\* The value the call of p writes.
Target(p) == <<Quoted(Val(proc[p].op = "enable"))>>

\* The records of rcvar in a file: the lines that start with '<rcvar>='.
MatchingLines(file, rcvar) ==
    SelectSeq(SplitLines(file.data), LAMBDA l : StartsWith(l, rcvar))

OtherLines(file, rcvar) ==
    SelectSeq(SplitLines(file.data), LAMBDA l : ~StartsWith(l, rcvar))

\* The value of a record: its first word, without the key.
RecordValue(line) == SubSeq(line, 2, FirstWordLen(line))

\* The read of a file in which the last matching record wins.
ReadValue(file, rcvar) ==
    LET ms == MatchingLines(file, rcvar)
    IN IF ms = <<>> THEN <<"(missing)">> ELSE RecordValue(ms[Len(ms)])

\* p's enable / disable returned True and no other caller has called.
Alone(p) ==
    /\ IsSwitch(p) /\ proc[p].pc = "done" /\ proc[p].ret = "True"
    /\ \A q \in Procs \ {p} : proc[q].pc = "idle"

\* What _switch leaves in a file when nothing else touches it.
Switched(file, p) ==
    File(Flatten(NewLines(file, proc[p].rcvar, Val(proc[p].op = "enable"))))

\* C1: two concurrent enable / disable calls for different services in the
\* same config file leave the file as one of the two orders of running them
\* one after the other would (each service at its target value).
C1_ConcurrentIndependent ==
    \A p, q \in Procs :
        ( /\ p # q /\ IsSwitch(p) /\ IsSwitch(q)
          /\ proc[p].pc = "done" /\ proc[p].ret = "True"
          /\ proc[q].pc = "done" /\ proc[q].ret = "True"
          /\ proc[p].name # proc[q].name
          /\ proc[p].config = proc[q].config )
        => fs[proc[p].config] \in
              { Switched(Switched(fs0[proc[p].config], p), q),
                Switched(Switched(fs0[proc[p].config], q), p) }

\* C2: when the rewrite fails after the file was opened for writing, a file
\* that held a record of the rcvar still holds the complete content it had
\* before the call.
C2_AtomicWrite ==
    \A p \in Procs :
        (proc[p].pc = "failed" /\ MatchingLines(proc[p].seen, proc[p].rcvar) # <<>>)
        => proc[p].post[proc[p].config] = proc[p].seen

\* C3: a file with two or more records of the rcvar holds exactly one after
\* a successful enable / disable, and that one carries the value written.
C3_DedupOnWrite ==
    \A p \in Procs :
        (Alone(p) /\ Len(MatchingLines(proc[p].seen, proc[p].rcvar)) >= 2)
        => LET ms == MatchingLines(fs[proc[p].config], proc[p].rcvar)
           IN Len(ms) = 1 /\ RecordValue(ms[1]) = Target(p)

\* C4: the same enable / disable called again right after it returned
\* returns the same value and leaves the files as the first call left them.
C4_Idempotent ==
    \A p, q \in Procs :
        ( /\ p \in proc[q].pred /\ IsSwitch(p)
          /\ proc[p].pc = "done" /\ proc[q].pc = "done"
          /\ proc[q].op = proc[p].op /\ proc[q].name = proc[p].name
          /\ proc[q].kw = proc[p].kw )
        => proc[q].ret = proc[p].ret /\ proc[q].post = proc[p].post

\* C5: a call of enable, disable or enabled for a name that get_all does not
\* list returns False in one step that leaves every file as it is and hands
\* no rcvar query to the command runner.
C5_UnknownUnit ==
    [][ \A p \in Procs :
          ( /\ proc[p].pc = "idle" /\ proc'[p].pc # "idle"
            /\ proc'[p].name \notin Range(get_all) )
          => /\ proc'[p].pc = "done" /\ proc'[p].ret = "False"
             /\ fs' = fs
             /\ ran' \ ran \subseteq {CmdList} ]_vars

C5_Witness ==
    /\ proc[1].pc = "done" /\ proc[1].op = "disable" /\ proc[1].name = "DAEMON"
    /\ proc[1].ret = "False"
    /\ proc[2].pc = "done" /\ proc[2].op = "enabled" /\ proc[2].name = "DAEMON"
    /\ proc[2].ret = "False"
    /\ fs = fs0 /\ fs[RcConf].exists

\* C6: what present / absent return never reports a failure together with
\* a change: result is False only with empty changes, changes are non-empty
\* exactly for the statuses new and updated (present) and removed (absent),
\* and the statuses present (present) and absent (absent) give result True
\* with empty changes.
C6_ResultInvariant ==
    cronRet.fn # "" =>
        LET r == cronRet.ret
            changed == \/ cronRet.fn = "present" /\ cronRet.data \in {"new", "updated"}
                       \/ cronRet.fn = "absent" /\ cronRet.data = "removed"
            already == \/ cronRet.fn = "present" /\ cronRet.data = "present"
                       \/ cronRet.fn = "absent" /\ cronRet.data = "absent"
        IN /\ ~r.result => r.changes = {}
           /\ (r.changes # {}) <=> changed
           /\ already => (r.result /\ r.changes = {})

C6_Witness ==
    /\ cronRet.fn = "present" /\ cronRet.data = "updated"
    /\ cronRet.ret.result /\ cronRet.ret.changes = {<<"root", "backup">>}

\* C7: after enable (disable) returned True, the last record of the rcvar in
\* the config file reads YES (NO), whatever the file held before.
C7_RoundTrip ==
    \A p \in Procs :
        Alone(p) => ReadValue(fs[proc[p].config], proc[p].rcvar) = Target(p)

\* C8: a call that finds the rcvar already at the target value does not
\* open the config file for writing.
C8_NoWriteAtTarget ==
    \A p \in Procs :
        proc[p].pc = "writing"
        => ReadValue(proc[p].seen, proc[p].rcvar) # Target(p)

\* C9: when the file holds no record of the rcvar, a successful enable /
\* disable leaves its lines as they were and adds the record as a new last
\* line.
C9_AppendNewLine ==
    \A p \in Procs :
        (Alone(p) /\ MatchingLines(proc[p].seen, proc[p].rcvar) = <<>>)
        => SplitLines(fs[proc[p].config].data)
             = SplitLines(proc[p].seen.data)
                 \o << <<proc[p].rcvar \o "=">> \o Target(p) \o <<NL>> >>

\* C10: a successful enable / disable leaves the lines that are no record
\* of the rcvar unchanged and in order, and keeps on every record what
\* followed its first word.
C10_Frame ==
    \A p \in Procs :
        Alone(p)
        => LET before == SplitLines(proc[p].seen.data)
               after == SplitLines(fs[proc[p].config].data)
           IN /\ OtherLines(fs[proc[p].config], proc[p].rcvar)
                   = OtherLines(proc[p].seen, proc[p].rcvar)
              /\ \A i \in DOMAIN before :
                    StartsWith(before[i], proc[p].rcvar)
                    => /\ i \in DOMAIN after
                       /\ StartsWith(after[i], proc[p].rcvar)
                       /\ Rest(after[i]) = Rest(before[i])

====
